---- MODULE Spec2Model ----
(***************************************************************************)
(* The agent execution kernel of the multi-agent blog generator:           *)
(* BaseAgent.__call__ and ConditionalAgent.__call__ (src/agents/base.py)   *)
(* acting on the shared AgentState dictionary (src/state/schema.py).       *)
(*                                                                         *)
(* The shared state and every update are Python dicts: they are modelled   *)
(* as functions from key names to values, so that a missing key, a         *)
(* dict.update and a {**d, k: v} copy are what they are in the code.       *)
(***************************************************************************)
EXTENDS Integers, Sequences, FiniteSets, TLC

VARIABLES
    state,            \* the shared AgentState dict the caller holds
    execution_count,  \* self.execution_count of each agent instance
    start_time,       \* the local start_time of each agent's call in progress
    pc,               \* where each agent's call stands
    result,           \* the dict a finished call returned, until it is folded
    last_exec,        \* what the domain logic of the call in progress did
    history,          \* the kernel calls that have returned, oldest first
    now,              \* the wall clock (time.time() and datetime.now())
    parallel_execution, \* whether calls on the same state may overlap
    candidate,        \* the state dict handed to validate_state
    validation,       \* what validate_state returned for it
    DUCKDUCKGO_AVAILABLE, \* whether the import of duckduckgo_search succeeded
    tool,             \* the SearchTool being constructed or in use
    search_outcome    \* what the last SearchTool.search call did

\* The variables of the kernel, of the state validation and of the search tool.
kernelVars == <<state, execution_count, start_time, pc, result, last_exec,
                history, now, parallel_execution>>

validationVars == <<candidate, validation>>

searchVars == <<DUCKDUCKGO_AVAILABLE, tool, search_outcome>>

toolVars == <<validationVars, searchVars>>

vars == <<kernelVars, toolVars>>

----------------------------------------------------------------------------
\* Bounds of the model.

\* Kernel calls started in a run, over all agents.
MaxCalls == 2

\* Readings of the clock.
MaxTime == 1

----------------------------------------------------------------------------
\* The agents of a run: a plain BaseAgent and a ConditionalAgent whose subclass
\* overrides should_execute.

\* The fields of AgentResponse (TypedDict).
AgentResponseFields == {"success", "agent_name", "data", "error", "execution_time"}

BaseAgents == {"Writer"}

ConditionalAgents == {"Editor"}

Agents == BaseAgents \cup ConditionalAgents

\* AgentStatus (str, Enum).
PENDING == "pending"

IN_PROGRESS == "in_progress"

COMPLETED == "completed"

FAILED == "failed"

AgentStatus == {PENDING, IN_PROGRESS, COMPLETED, FAILED}

\* Python's None, for the Optional[str] fields.
None == "None"

\* The keys of AgentState the model carries: one field of each domain group
\* (research, draft, review), the execution metadata and the version control
\* group.  The kernel treats every other domain key as it treats these.
DomainKeys == {"research_quality", "blog_post", "needs_revision"}

MetadataKeys == {"agent_status", "execution_time", "error_log"}

VersionKeys == {"version", "last_modified_by", "last_modified_at"}

\* The empty dict {}.
EmptyDict == [k \in {} |-> 0]

----------------------------------------------------------------------------
\* Dict operations of the code.

\* d.get(k, default)
Get(d, k, default) == IF k \in DOMAIN d THEN d[k] ELSE default

\* {**d, k: v}: a copy of d with k set to v.
CopyWith(d, k, v) == [x \in DOMAIN d \cup {k} |-> IF x = k THEN v ELSE d[x]]

\* d.update(e): the keys of e replace or extend those of d.
DictUpdate(d, e) ==
    [k \in DOMAIN d \cup DOMAIN e |-> IF k \in DOMAIN e THEN e[k] ELSE d[k]]

\* create_initial_state(topic, ...): the fields the model carries.
create_initial_state ==
    [ research_quality |-> "unknown",
      blog_post        |-> "",
      needs_revision   |-> FALSE,
      agent_status     |-> EmptyDict,
      execution_time   |-> EmptyDict,
      error_log        |-> <<>>,
      version          |-> 1,
      last_modified_by |-> None,
      last_modified_at |-> 0 ]

----------------------------------------------------------------------------
\* What domain logic (execute) can do.

\* str(e) of the errors domain logic raises.
Messages == {"boom"}

\* str(e) of the AttributeError that result.update raises when execute
\* returned None instead of a dict.
NoneTypeError == "'NoneType' object has no attribute 'update'"

\* Updates that carry domain fields only.
DomainOutputs ==
    { EmptyDict,
      [research_quality |-> "high", blog_post |-> "hello"],
      [blog_post |-> "world", needs_revision |-> TRUE] }

\* An update in which the agent itself supplies every execution metadata and
\* version control key (well typed, as AgentState declares them).
MetadataOutputs(name) ==
    { [ agent_status     |-> CopyWith(EmptyDict, name, PENDING),
        execution_time   |-> EmptyDict,
        error_log        |-> <<>>,
        version          |-> 0,
        last_modified_by |-> None,
        last_modified_at |-> 0 ] }

\* Every dict execute may return: Dict[str, Any] over the keys of AgentState.
AgentOutputs(name) == DomainOutputs \cup MetadataOutputs(name)

\* What the domain logic of a call did: nothing yet ("none"), returned a dict
\* ("return"), returned None ("return_none"), raised an Exception ("raise");
\* for the gate, the predicate said no ("skip") or raised ("predicate_raise").
NoExec == [kind |-> "none", update |-> EmptyDict, error |-> None]

Returned(u) == [kind |-> "return", update |-> u, error |-> None]

ReturnedNone == [kind |-> "return_none", update |-> EmptyDict, error |-> NoneTypeError]

Raised(m) == [kind |-> "raise", update |-> EmptyDict, error |-> m]

----------------------------------------------------------------------------
\* The dicts BaseAgent.__call__ and ConditionalAgent.__call__ return.

\* The success metadata keeping an execution_time entry the agent already has.
SuccessMetadataKeepFirstTiming(name, s, duration, t) ==
    LET times == Get(s, "execution_time", EmptyDict)
    IN  [ last_modified_by |-> name,
          last_modified_at |-> t,
          execution_time   |-> IF name \in DOMAIN times
                               THEN times
                               ELSE CopyWith(times, name, duration),
          agent_status     |-> CopyWith(Get(s, "agent_status", EmptyDict), name, COMPLETED) ]

\* The success metadata copying the status map without its own completed entry.
SuccessMetadataNoStatus(name, s, duration, t) ==
    [ last_modified_by |-> name,
      last_modified_at |-> t,
      execution_time   |-> CopyWith(Get(s, "execution_time", EmptyDict), name, duration),
      agent_status     |-> Get(s, "agent_status", EmptyDict) ]

\* The metadata the success path writes over the agent's result.
SuccessMetadata(name, s, duration, t) ==
    [ last_modified_by |-> name,
      last_modified_at |-> t,
      execution_time   |-> CopyWith(Get(s, "execution_time", EmptyDict), name, duration),
      agent_status     |-> CopyWith(Get(s, "agent_status", EmptyDict), name, COMPLETED) ]

\* The success path returning its metadata without the agent's own fields.
SuccessUpdateMetadataOnly(name, s, u, duration, t) ==
    SuccessMetadata(name, s, duration, t)

\* The success path with the merge turned round: the agent's fields win.
SuccessUpdateAgentWins(name, s, u, duration, t) ==
    DictUpdate(SuccessMetadata(name, s, duration, t), u)

\* The success path answering with an AgentResponse record.
SuccessUpdateAsAgentResponse(name, s, u, duration, t) ==
    [ success        |-> TRUE,
      agent_name     |-> name,
      data           |-> u,
      error          |-> None,
      execution_time |-> duration ]

\* result.update({...}); return result
SuccessUpdate(name, s, u, duration, t) ==
    DictUpdate(u, SuccessMetadata(name, s, duration, t))

\* error_entry of the except branch; the timestamp is the clock reading that
\* isoformat() renders.
ErrorEntry(name, m, t, count) ==
    [agent |-> name, error |-> m, timestamp |-> t, execution_count |-> count]

\* The except branch returning the new entry alone, without the log so far.
FailureUpdateFreshLog(name, s, m, duration, t, count) ==
    [ agent_status   |-> CopyWith(Get(s, "agent_status", EmptyDict), name, FAILED),
      error_log      |-> <<ErrorEntry(name, m, t, count)>>,
      execution_time |-> CopyWith(Get(s, "execution_time", EmptyDict), name, duration) ]

\* The dict the except branch returns.
FailureUpdate(name, s, m, duration, t, count) ==
    [ agent_status   |-> CopyWith(Get(s, "agent_status", EmptyDict), name, FAILED),
      error_log      |-> Get(s, "error_log", <<>>) \o <<ErrorEntry(name, m, t, count)>>,
      execution_time |-> CopyWith(Get(s, "execution_time", EmptyDict), name, duration) ]

\* The try block taking a None result for an empty dict.
TryBlockNoneAsEmptyDict(name, s, exec, duration, t) ==
    IF exec.kind \in {"return", "return_none"}
    THEN [exception |-> None, value |-> SuccessUpdate(name, s, exec.update, duration, t)]
    ELSE [exception |-> exec.error, value |-> EmptyDict]

\* The try block from execute on: the Exception it ends with (None: it ran to
\* its return statement) and the dict it returns.
TryBlock(name, s, exec, duration, t) ==
    IF exec.kind = "return"
    THEN [exception |-> None, value |-> SuccessUpdate(name, s, exec.update, duration, t)]
    ELSE [exception |-> exec.error, value |-> EmptyDict]

\* The try statement without its except branch: the Exception leaves the call.
TryWithoutExcept(name, s, exec, duration, t, count) ==
    LET body == TryBlock(name, s, exec, duration, t)
    IN  [raises |-> body.exception # None, value |-> body.value]

\* try: ... except Exception as e: ...  Whether the call raises to its caller,
\* and the dict it returns when it does not.
TryExcept(name, s, exec, duration, t, count) ==
    LET body == TryBlock(name, s, exec, duration, t)
    IN  IF body.exception = None
        THEN [raises |-> FALSE, value |-> body.value]
        ELSE [raises |-> FALSE,
              value  |-> FailureUpdate(name, s, body.exception, duration, t, count)]

\* The skip branch recording a zero duration as well.
SkipUpdateWithTiming(name, s) ==
    [ agent_status   |-> CopyWith(Get(s, "agent_status", EmptyDict), name, COMPLETED),
      execution_time |-> CopyWith(Get(s, "execution_time", EmptyDict), name, 0) ]

\* The dict the gate returns when should_execute(state) is false.
SkipUpdate(name, s) ==
    [ agent_status |-> CopyWith(Get(s, "agent_status", EmptyDict), name, COMPLETED) ]

\* The status write made on a copy: the caller's state is left as it was.
UpdateStatusOnCopy(s, name, status) == s

\* The status write replacing the whole map by this agent's entry.
UpdateStatusFreshMap(s, name, status) ==
    CopyWith(s, "agent_status", CopyWith(EmptyDict, name, status))

\* _update_status(state, status): the in-place write into the state.
UpdateStatusInPlace(s, name, status) ==
    LET withKey == IF "agent_status" \in DOMAIN s
                   THEN s
                   ELSE CopyWith(s, "agent_status", EmptyDict)
    IN  [withKey EXCEPT !["agent_status"] = CopyWith(@, name, status)]

----------------------------------------------------------------------------
\* The state every run starts in, but for the scheduling of the calls.
InitRun ==
    /\ state = create_initial_state
    /\ execution_count = [a \in Agents |-> 0]
    /\ start_time = [a \in Agents |-> 0]
    /\ pc = [a \in Agents |-> "idle"]
    /\ result = [a \in Agents |-> EmptyDict]
    /\ last_exec = [a \in Agents |-> NoExec]
    /\ history = <<>>
    /\ now = 0

\* validate_state has not been called.
NotValidated == [is_valid |-> FALSE, error_message |-> "not validated"]

\* No state has been handed to validate_state.
ValidationIdle == candidate = EmptyDict /\ validation = NotValidated

\* The provider attribute of a SearchTool whose constructor has not set it.
NoProvider == [kind |-> "none", api_key |-> None]

\* No SearchTool(...) expression has been evaluated.
NoTool ==
    [ status      |-> "none",
      provider_id |-> None,
      key_arg     |-> None,
      error       |-> None,
      max_results |-> 0,
      provider    |-> NoProvider ]

\* SearchTool.search has not been called.
NoSearch ==
    [ status   |-> "none",
      limit    |-> 0,
      backend  |-> "none",
      arg      |-> [given |-> FALSE, n |-> 0],
      raises   |-> FALSE,
      value    |-> <<>> ]

\* No search tool is in use.
SearchIdle ==
    /\ DUCKDUCKGO_AVAILABLE = TRUE
    /\ tool = NoTool
    /\ search_outcome = NoSearch

\* Sequential runs.
Init == InitRun /\ parallel_execution = FALSE /\ ValidationIdle /\ SearchIdle

\* Runs of either kind: sequential, or with calls on the one state overlapping.
InitAnySchedule ==
    InitRun /\ parallel_execution \in BOOLEAN /\ ValidationIdle /\ SearchIdle

\* A call may start when the agent is not already in one and, in a
\* sequential run, when every earlier result has been folded into the state.
MayStart(name) ==
    /\ pc[name] = "idle"
    /\ parallel_execution \/ \A b \in Agents : pc[b] = "idle"

\* The kernel calls started so far, over the agents in S.
RECURSIVE CallsStarted(_)
CallsStarted(S) ==
    IF S = {} THEN 0
    ELSE LET a == CHOOSE x \in S : TRUE
         IN  execution_count[a] + CallsStarted(S \ {a})

\* The kernel starting a call without counting it.
KernelStartUncounted(name) ==
    /\ CallsStarted(Agents) < MaxCalls
    /\ start_time' = [start_time EXCEPT ![name] = now]
    /\ pc' = [pc EXCEPT ![name] = "started"]
    /\ UNCHANGED <<toolVars,
                   state, execution_count, result, last_exec, history, now,
                   parallel_execution>>

\* BaseAgent.__call__, lines 60-61: count the call and start the timer.
KernelStart(name) ==
    /\ CallsStarted(Agents) < MaxCalls
    /\ execution_count' = [execution_count EXCEPT ![name] = @ + 1]
    /\ start_time' = [start_time EXCEPT ![name] = now]
    /\ pc' = [pc EXCEPT ![name] = "started"]
    /\ UNCHANGED <<toolVars,
                   state, result, last_exec, history, now, parallel_execution>>

\* The caller invokes a plain agent.
Call(name) ==
    /\ name \in BaseAgents
    /\ MayStart(name)
    /\ KernelStart(name)

\* The gate's skip branch: should_execute(state) returned False.
Skip(name) ==
    /\ result' = [result EXCEPT ![name] = SkipUpdate(name, state)]
    /\ pc' = [pc EXCEPT ![name] = "returned"]
    /\ last_exec' = [last_exec EXCEPT ![name] = [NoExec EXCEPT !.kind = "skip"]]
    /\ UNCHANGED <<toolVars,
                   state, execution_count, start_time, history, now,
                   parallel_execution>>

\* The error of the predicate captured as the kernel captures one of execute:
\* a failure dict is returned.
PredicateRaiseCaptured(name) ==
    /\ result' = [result EXCEPT ![name] =
           FailureUpdate(name, state, "boom", 0, now, execution_count[name])]
    /\ pc' = [pc EXCEPT ![name] = "returned"]
    /\ last_exec' = [last_exec EXCEPT ![name] =
           [NoExec EXCEPT !.kind = "predicate_raise"]]
    /\ UNCHANGED <<toolVars,
                   state, execution_count, start_time, history, now,
                   parallel_execution>>

\* should_execute(state) itself raised: nothing of the gate's body has run.
PredicateRaise(name) ==
    /\ pc' = [pc EXCEPT ![name] = "raised"]
    /\ last_exec' = [last_exec EXCEPT ![name] =
           [NoExec EXCEPT !.kind = "predicate_raise"]]
    /\ UNCHANGED <<toolVars,
                   state, execution_count, start_time, result, history, now,
                   parallel_execution>>

\* The gate passing a true predicate on to a kernel that does not count.
ConditionalCallUncounted(name) ==
    /\ name \in ConditionalAgents
    /\ MayStart(name)
    /\ \E should_execute \in {"True", "False", "raises"} :
         CASE should_execute = "True"   -> KernelStartUncounted(name)
           [] should_execute = "False"  -> Skip(name)
           [] should_execute = "raises" -> PredicateRaise(name)

\* ConditionalAgent.__call__: the predicate of the subclass decides.
ConditionalCall(name) ==
    /\ name \in ConditionalAgents
    /\ MayStart(name)
    /\ \E should_execute \in {"True", "False", "raises"} :
         CASE should_execute = "True"   -> KernelStart(name)
           [] should_execute = "False"  -> Skip(name)
           [] should_execute = "raises" -> PredicateRaise(name)

\* Line 67: the in-progress write.
UpdateStatus(name) ==
    /\ pc[name] = "started"
    /\ state' = UpdateStatusInPlace(state, name, IN_PROGRESS)
    /\ pc' = [pc EXCEPT ![name] = "executing"]
    /\ UNCHANGED <<toolVars,
                   execution_count, start_time, result, last_exec, history, now,
                   parallel_execution>>

\* Lines 70-121: domain logic does exec and the try statement answers.
Finish(name, exec) ==
    LET outcome == TryExcept(name, state, exec, now - start_time[name], now,
                             execution_count[name])
    IN  /\ pc[name] = "executing"
        /\ pc' = [pc EXCEPT ![name] = IF outcome.raises THEN "raised" ELSE "returned"]
        /\ result' = [result EXCEPT ![name] = outcome.value]
        /\ last_exec' = [last_exec EXCEPT ![name] = exec]
        /\ start_time' = [start_time EXCEPT ![name] = 0]
        /\ history' = Append(history, [agent |-> name, kind |-> exec.kind])
        /\ UNCHANGED <<toolVars,
                   state, execution_count, now, parallel_execution>>

\* execute returns a dict.
ExecuteReturn(name) == \E u \in AgentOutputs(name) : Finish(name, Returned(u))

\* execute raises an Exception.
ExecuteRaise(name) == \E m \in Messages : Finish(name, Raised(m))

\* execute returns None: result.update raises inside the try block.
ExecuteReturnNone(name) == Finish(name, ReturnedNone)

\* The caller folds the returned dict into the state, key by key.
Fold(name) ==
    /\ pc[name] = "returned"
    /\ state' = DictUpdate(state, result[name])
    /\ result' = [result EXCEPT ![name] = EmptyDict]
    /\ last_exec' = [last_exec EXCEPT ![name] = NoExec]
    /\ pc' = [pc EXCEPT ![name] = "idle"]
    /\ UNCHANGED <<toolVars,
                   execution_count, start_time, history, now, parallel_execution>>

\* The caller receives the exception the call raised; there is no dict to fold.
Propagate(name) ==
    /\ pc[name] = "raised"
    /\ last_exec' = [last_exec EXCEPT ![name] = NoExec]
    /\ pc' = [pc EXCEPT ![name] = "idle"]
    /\ UNCHANGED <<toolVars,
                   state, execution_count, start_time, result, history, now,
                   parallel_execution>>

\* Time passes.
Tick ==
    /\ now < MaxTime
    /\ now' = now + 1
    /\ UNCHANGED <<toolVars,
                   state, execution_count, start_time, pc, result, last_exec,
                   history, parallel_execution>>

Next ==
    \/ \E name \in Agents : Call(name)
    \/ \E name \in Agents : ConditionalCall(name)
    \/ \E name \in Agents : UpdateStatus(name)
    \/ \E name \in Agents : ExecuteReturn(name)
    \/ \E name \in Agents : ExecuteRaise(name)
    \/ \E name \in Agents : ExecuteReturnNone(name)
    \/ \E name \in Agents : Fold(name)
    \/ \E name \in Agents : Propagate(name)
    \/ Tick

\* Sequential runs: each result is folded before the next call starts.
Spec == Init /\ [][Next]_vars

\* Runs of either kind.
SpecAnySchedule == InitAnySchedule /\ [][Next]_vars

----------------------------------------------------------------------------
\* validate_state (src/state/schema.py).

\* Topics as long as this are handed to validate_state.
MaxTopicLen == 201

\* A Python str of n characters.
PyStr(n) == [type |-> "str", chars |-> [i \in 1..n |-> "a"]]

\* Python's None as the value of a topic.
PyNone == [type |-> "NoneType", chars |-> <<>>]

\* bool(v): None and the empty str are falsy, every other str is truthy.
Truthy(v) == v.type = "str" /\ Len(v.chars) > 0

\* len(v) of a str.
PyLen(v) == Len(v.chars)

\* The states handed to validate_state: without a topic key, with topic None
\* and with a topic of each length up to the bound.
Candidates ==
    {EmptyDict, [topic |-> PyNone]} \cup {[topic |-> PyStr(n)] : n \in 0..MaxTopicLen}

\* validate_state with the upper limit exclusive, as its message words it.
validate_state_less_than_200(s) ==
    IF "topic" \notin DOMAIN s \/ ~Truthy(s["topic"])
    THEN [is_valid |-> FALSE, error_message |-> "Missing required field: topic"]
    ELSE IF PyLen(s["topic"]) < 3
    THEN [is_valid |-> FALSE,
          error_message |-> "Topic must be at least 3 characters long"]
    ELSE IF PyLen(s["topic"]) >= 200
    THEN [is_valid |-> FALSE,
          error_message |-> "Topic must be less than 200 characters"]
    ELSE [is_valid |-> TRUE, error_message |-> None]

\* validate_state(state): the tuple (is_valid, error_message).
validate_state(s) ==
    IF "topic" \notin DOMAIN s \/ ~Truthy(s["topic"])
    THEN [is_valid |-> FALSE, error_message |-> "Missing required field: topic"]
    ELSE IF PyLen(s["topic"]) < 3
    THEN [is_valid |-> FALSE,
          error_message |-> "Topic must be at least 3 characters long"]
    ELSE IF PyLen(s["topic"]) > 200
    THEN [is_valid |-> FALSE,
          error_message |-> "Topic must be less than 200 characters"]
    ELSE [is_valid |-> TRUE, error_message |-> None]

\* A state of any of the shapes is about to be validated.
InitValidate ==
    /\ InitRun
    /\ parallel_execution = FALSE
    /\ SearchIdle
    /\ candidate \in Candidates
    /\ validation = NotValidated

\* The caller validates the state.
Validate ==
    /\ validation = NotValidated
    /\ validation' = validate_state(candidate)
    /\ UNCHANGED <<kernelVars, candidate, searchVars>>

NextValidate == Validate

\* Validation of one state.
SpecValidate == InitValidate /\ [][NextValidate]_vars

----------------------------------------------------------------------------
\* The search tool (src/tools/search.py).

\* The configured default max_results of a tool is between 1 and this.
MaxDefaultResults == 2

\* A backend answers with up to this many items.
MaxItems == 3

\* The provider identifiers a SearchTool is constructed with; the last is none
\* of the three the constructor knows.
ProviderIds == {"duckduckgo", "serper", "tavily", "bing"}

\* The api_key arguments: omitted (None), empty, and a key.
ApiKeys == {None, "", "key"}

\* The max_results argument of SearchTool.search: omitted (None) or a number.
Omitted == [given |-> FALSE, n |-> 0]

SearchArgs == {Omitted} \cup {[given |-> TRUE, n |-> n] : n \in 0..MaxItems}

\* What can go wrong between a provider and its backend: the connection fails,
\* the request times out, the answer has an error status (raise_for_status),
\* the answer does not parse (response.json()).
Failures == {"connection_error", "timeout", "http_error", "invalid_json"}

\* The key under which a backend's item carries the link and the snippet.
LinkKey(kind) ==
    CASE kind = "duckduckgo" -> "href"
      [] kind = "serper"     -> "link"
      [] kind = "tavily"     -> "url"

SnippetKey(kind) ==
    CASE kind = "duckduckgo" -> "body"
      [] kind = "serper"     -> "snippet"
      [] kind = "tavily"     -> "content"

\* The i-th item of a backend's answer.  A text is modelled by a number: 0 is
\* the empty str, i the text of the i-th item.  A full item has the three
\* fields and one the provider does not read; a sparse one has a title only.
RawItem(kind, i, shape) ==
    IF shape = "full"
    THEN [k \in {"title", LinkKey(kind), SnippetKey(kind), "position"} |-> i]
    ELSE [k \in {"title"} |-> i]

\* What a backend can do with a request.
Responses(kind) ==
    {[event |-> f, items |-> <<>>] : f \in Failures}
    \cup {[event |-> "ok", items |-> [i \in 1..n |-> RawItem(kind, i, shape)]] :
             n \in 0..MaxItems, shape \in {"full", "sparse"}}

\* seq[:n] for n >= 0.
Take(seq, n) == SubSeq(seq, 1, IF n < Len(seq) THEN n ELSE Len(seq))

\* The record a provider builds from an item.
ResultRecord(kind, item) ==
    [ title   |-> Get(item, "title", 0),
      link    |-> Get(item, LinkKey(kind), 0),
      snippet |-> Get(item, SnippetKey(kind), 0) ]

\* The try block of a provider's search: the request, the status check and
\* the parsing raise on a failure; otherwise the items are turned into
\* records, those of serper and tavily cut to max_results first.
ProviderTry(kind, response, max_results) ==
    IF response.event # "ok"
    THEN [raises |-> TRUE, value |-> <<>>]
    ELSE LET items == IF kind = "duckduckgo"
                      THEN response.items
                      ELSE Take(response.items, max_results)
         IN  [ raises |-> FALSE,
               value  |-> [i \in 1..Len(items) |-> ResultRecord(kind, items[i])] ]

\* A provider's search without its except clause.
ProviderSearchWithoutExcept(kind, response, max_results) ==
    ProviderTry(kind, response, max_results)

\* DuckDuckGoSearch.search, SerperSearch.search, TavilySearch.search: the try
\* block, and an empty list when it raised.
ProviderSearch(kind, response, max_results) ==
    LET body == ProviderTry(kind, response, max_results)
    IN  IF body.raises THEN [raises |-> FALSE, value |-> <<>>] ELSE body

\* DuckDuckGoSearch.__init__.
DuckDuckGoSearchInit(available) ==
    IF ~available
    THEN [raises |-> TRUE, error |-> "ImportError", provider |-> NoProvider]
    ELSE [ raises |-> FALSE, error |-> None,
           provider |-> [kind |-> "duckduckgo", api_key |-> None] ]

\* SerperSearch.__init__ and TavilySearch.__init__.
KeyedSearchInit(kind, api_key) ==
    [ raises |-> FALSE, error |-> None,
      provider |-> [kind |-> kind, api_key |-> api_key] ]

\* raise ValueError(...)
RaiseValueError == [raises |-> TRUE, error |-> "ValueError", provider |-> NoProvider]

\* The outcome of SearchTool(...): the tool, or the error raised instead.
Constructed(built, provider, max_results, api_key) ==
    [ status      |-> IF built.raises THEN "raised" ELSE "constructed",
      provider_id |-> provider,
      key_arg     |-> api_key,
      error       |-> built.error,
      max_results |-> IF built.raises THEN 0 ELSE max_results,
      provider    |-> built.provider ]

\* SearchTool.__init__ testing the key with "api_key is None".
SearchToolInitKeyNotNone(available, provider, max_results, api_key) ==
    Constructed(
        CASE provider = "duckduckgo" -> DuckDuckGoSearchInit(available)
          [] provider = "serper" ->
                IF api_key = None THEN RaiseValueError
                ELSE KeyedSearchInit("serper", api_key)
          [] provider = "tavily" ->
                IF api_key = None THEN RaiseValueError
                ELSE KeyedSearchInit("tavily", api_key)
          [] OTHER -> RaiseValueError,
        provider, max_results, api_key)

\* SearchTool.__init__(provider, max_results, timeout, api_key); "not api_key"
\* holds of None and of the empty str.
SearchToolInit(available, provider, max_results, api_key) ==
    Constructed(
        CASE provider = "duckduckgo" -> DuckDuckGoSearchInit(available)
          [] provider = "serper" ->
                IF api_key \in {None, ""} THEN RaiseValueError
                ELSE KeyedSearchInit("serper", api_key)
          [] provider = "tavily" ->
                IF api_key \in {None, ""} THEN RaiseValueError
                ELSE KeyedSearchInit("tavily", api_key)
          [] OTHER -> RaiseValueError,
        provider, max_results, api_key)

\* SearchTool.search(query, max_results): "max_results or self.max_results"
\* takes the configured default when the argument is None or 0.
SearchToolSearch(t, response, arg) ==
    LET results_limit == IF arg.given /\ arg.n # 0 THEN arg.n ELSE t.max_results
        results == ProviderSearch(t.provider.kind, response, results_limit)
    IN  [ status  |-> "done",
          limit   |-> results_limit,
          backend |-> response.event,
          arg     |-> arg,
          raises  |-> results.raises,
          value   |-> results.value ]

\* No tool has been constructed; the duckduckgo_search library is installed
\* or not.
InitSearch ==
    /\ InitRun
    /\ parallel_execution = FALSE
    /\ ValidationIdle
    /\ DUCKDUCKGO_AVAILABLE \in BOOLEAN
    /\ tool = NoTool
    /\ search_outcome = NoSearch

\* The caller evaluates SearchTool(provider, max_results, api_key=api_key).
Construct ==
    /\ tool.status = "none"
    /\ \E provider \in ProviderIds, api_key \in ApiKeys,
          max_results \in 1..MaxDefaultResults :
         tool' = SearchToolInit(DUCKDUCKGO_AVAILABLE, provider, max_results, api_key)
    /\ UNCHANGED <<kernelVars, validationVars, DUCKDUCKGO_AVAILABLE, search_outcome>>

\* The caller calls search on the tool it holds, and the backend answers.
Search ==
    /\ tool.status = "constructed"
    /\ \E arg \in SearchArgs, response \in Responses(tool.provider.kind) :
         search_outcome' = SearchToolSearch(tool, response, arg)
    /\ UNCHANGED <<kernelVars, validationVars, DUCKDUCKGO_AVAILABLE, tool>>

NextSearch == Construct \/ Search

\* The construction of a search tool and the searches made with it.
SpecSearch == InitSearch /\ [][NextSearch]_vars

----------------------------------------------------------------------------
\* Vocabulary of the properties.

\* p is a prefix of q.
IsPrefix(p, q) == Len(p) <= Len(q) /\ SubSeq(q, 1, Len(p)) = p

\* The status the state shows for an agent; an agent without an entry has
\* never executed in this run.
StatusOf(s, name) ==
    IF name \in DOMAIN s["agent_status"] THEN s["agent_status"][name] ELSE PENDING

\* The call of the agent has returned a dict that is not folded yet, after
\* domain logic did something of the given kinds.
ReturnedAfter(name, kinds) == pc[name] = "returned" /\ last_exec[name].kind \in kinds

\* This step folds the returned dict of such a call into the state.
FoldsAfter(name, kinds) == ReturnedAfter(name, kinds) /\ pc'[name] = "idle"

\* C1: in a sequential run, on every state built from create_initial_state by
\* folding kernel results, a call whose domain logic raised does not raise to
\* its caller: it has returned a dict over keys of AgentState.
C1_ExecuteErrorNeverEscapes ==
    \A name \in Agents :
        last_exec[name].kind = "raise" =>
            /\ pc[name] = "returned"
            /\ DOMAIN result[name] # {}
            /\ DOMAIN result[name] \subseteq DomainKeys \cup MetadataKeys \cup VersionKeys

\* Domain logic raised on a state that already carries a folded failure.
C1_Witness ==
    \E name \in Agents :
        /\ ReturnedAfter(name, {"raise"})
        /\ Len(state["error_log"]) >= 1

\* C2: when domain logic raises with message m, the returned dict has
\* agent_status[name] = failed, an execution_time[name] entry and the input
\* state's error_log followed by exactly one entry of this agent with error m;
\* it has no domain key, and folding it changes no domain field.
C2_FailureUpdateIsMetadataOnly ==
    [][ \A name \in Agents :
          FoldsAfter(name, {"raise"}) =>
            LET r   == result[name]
                log == state["error_log"]
            IN  /\ DOMAIN r = MetadataKeys
                /\ r["agent_status"][name] = FAILED
                /\ name \in DOMAIN r["execution_time"]
                /\ Len(r["error_log"]) = Len(log) + 1
                /\ SubSeq(r["error_log"], 1, Len(log)) = log
                /\ r["error_log"][Len(log) + 1].agent = name
                /\ r["error_log"][Len(log) + 1].error = last_exec[name].error
                /\ DOMAIN r \cap DomainKeys = {}
                /\ \A k \in DomainKeys : state'[k] = state[k]
                /\ state'["agent_status"][name] = FAILED
                /\ state'["error_log"] = r["error_log"]
      ]_vars

\* A failure result, computed on a state whose domain fields an earlier call
\* has written, is about to be folded.
C2_Witness ==
    \E name \in Agents :
        /\ ReturnedAfter(name, {"raise"})
        /\ state["blog_post"] # ""
        /\ state["last_modified_by"] # None

\* C3: when domain logic returns a partial update u, folding the kernel result
\* gives agent_status[name] = completed, execution_time[name] >= 0,
\* last_modified_by = name and every domain field of u with the value the
\* agent returned.
C3_SuccessUpdateMerged ==
    [][ \A name \in Agents :
          FoldsAfter(name, {"return"}) =>
            LET u == last_exec[name].update
            IN  /\ state'["agent_status"][name] = COMPLETED
                /\ name \in DOMAIN state'["execution_time"]
                /\ state'["execution_time"][name] >= 0
                /\ state'["last_modified_by"] = name
                /\ \A k \in DOMAIN u \cap DomainKeys :
                       k \in DOMAIN state' /\ state'[k] = u[k]
      ]_vars

\* The agent returned {blog_post: "hello", ...} and the result is to be folded.
C3_Witness ==
    \E name \in Agents :
        /\ ReturnedAfter(name, {"return"})
        /\ "blog_post" \in DOMAIN last_exec[name].update
        /\ last_exec[name].update["blog_post"] = "hello"
        /\ state["blog_post"] # "hello"

\* The kinds of outcome of domain logic after which the kernel has run.
KernelKinds == {"return", "return_none", "raise"}

\* The kinds that end in the except branch.
FailureKinds == {"return_none", "raise"}

\* This step is the in-progress write of the agent's call.
WritesInProgress(name) == pc[name] = "started" /\ pc'[name] = "executing"

\* This step is the return of the agent's kernel call.
KernelReturns(name) == pc[name] = "executing" /\ pc'[name] = "returned"

\* C4: per agent the status moves one way: a kernel call writes in-progress,
\* then exactly one of completed or failed when its result is folded, and
\* nothing else in that call changes it; no step sets a status to pending or
\* removes an entry; a re-invocation restarts at in-progress.  (The gate's skip
\* branch, which is no kernel call, sets completed.)
C4_StatusTransitionsUnidirectional ==
    [][ \A name \in Agents :
          LET before == StatusOf(state, name)
              after  == StatusOf(state', name)
          IN  /\ name \in DOMAIN state["agent_status"]
                    => name \in DOMAIN state'["agent_status"]
              /\ after = PENDING => before = PENDING
              /\ WritesInProgress(name) => after = IN_PROGRESS
              /\ KernelReturns(name) => before = IN_PROGRESS /\ after = IN_PROGRESS
              /\ FoldsAfter(name, KernelKinds) =>
                    /\ before = IN_PROGRESS
                    /\ after \in {COMPLETED, FAILED}
                    /\ after = COMPLETED <=> last_exec[name].kind = "return"
              /\ after # before =>
                    \/ WritesInProgress(name)
                    \/ FoldsAfter(name, KernelKinds)
                    \/ FoldsAfter(name, {"skip"}) /\ after = COMPLETED
      ]_vars

\* An agent whose first call failed is executing again, shown as in-progress.
C4_Witness ==
    \E name \in Agents :
        /\ pc[name] = "executing"
        /\ StatusOf(state, name) = IN_PROGRESS
        /\ Len(history) = 1
        /\ history[1] = [agent |-> name, kind |-> "raise"]

\* C5: the error sequence is append-only: over every step of a sequential run
\* (calls that succeed, fail or are skipped, each folded key by key) the
\* error_log before the step is a prefix of the error_log after it.
C5_ErrorLogAppendOnly ==
    [][ IsPrefix(state["error_log"], state'["error_log"]) ]_vars

\* The entries of the history that are calls of the agent.
RECURSIVE CallsOf(_, _)
CallsOf(h, name) ==
    IF h = <<>> THEN 0
    ELSE (IF Head(h).agent = name THEN 1 ELSE 0) + CallsOf(Tail(h), name)

\* C6: execution_count starts at 0 and is the number of kernel calls of the
\* agent started so far, whatever their outcome; when the two most recent
\* kernel calls of the run were failing calls of the same agent and both are
\* folded, the error_log ends with two distinct entries of that agent that
\* carry the invocation numbers of those calls (1 and 2 for its first two).
C6_InvocationCounter ==
    \A name \in Agents :
        /\ execution_count[name] =
               CallsOf(history, name)
                 + (IF pc[name] \in {"started", "executing"} THEN 1 ELSE 0)
        /\ ( /\ pc[name] = "idle"
             /\ Len(history) >= 2
             /\ \A i \in {Len(history) - 1, Len(history)} :
                    history[i].agent = name /\ history[i].kind \in FailureKinds )
           => LET log == state["error_log"]
                  n   == Len(log)
              IN  /\ n >= 2
                  /\ log[n - 1].agent = name /\ log[n].agent = name
                  /\ log[n - 1].execution_count = execution_count[name] - 1
                  /\ log[n].execution_count = execution_count[name]
                  /\ log[n - 1] # log[n]

\* The first two calls of an agent both failed and both are folded.
C6_Witness ==
    \E name \in Agents :
        /\ pc[name] = "idle"
        /\ execution_count[name] = 2
        /\ Len(history) = 2
        /\ \A i \in {1, 2} : history[i].agent = name /\ history[i].kind = "raise"
        /\ Len(state["error_log"]) = 2
        /\ state["error_log"][1].execution_count = 1
        /\ state["error_log"][2].execution_count = 2

\* This step is the gate's skip branch: a call returns without a kernel call.
SkipsNow(name) == pc[name] = "idle" /\ pc'[name] = "returned"

\* C7: when should_execute(state) is false the call runs no domain logic,
\* leaves the invocation counter alone and returns a dict whose only key is
\* agent_status, the state's status map with this agent completed; folding it
\* produces no execution_time and no error_log entry and changes nothing but
\* agent_status[name], whatever the agent's status was.
C7_SkipOnlyMarksCompleted ==
    [][ \A name \in Agents :
          /\ SkipsNow(name) =>
                /\ last_exec'[name].kind = "skip"
                /\ execution_count' = execution_count
                /\ history' = history
                /\ state' = state
                /\ DOMAIN result'[name] = {"agent_status"}
                /\ result'[name]["agent_status"] =
                       CopyWith(state["agent_status"], name, COMPLETED)
          /\ FoldsAfter(name, {"skip"}) =>
                /\ execution_count' = execution_count
                /\ history' = history
                /\ DOMAIN state' = DOMAIN state
                /\ \A k \in DOMAIN state \ {"agent_status"} : state'[k] = state[k]
                /\ state'["agent_status"][name] = COMPLETED
                /\ \A other \in Agents \ {name} :
                       /\ other \in DOMAIN state'["agent_status"]
                              <=> other \in DOMAIN state["agent_status"]
                       /\ StatusOf(state', other) = StatusOf(state, other)
      ]_vars

\* An agent whose last call failed is skipped by the gate.
C7_Witness ==
    \E name \in ConditionalAgents :
        /\ ReturnedAfter(name, {"skip"})
        /\ StatusOf(state, name) = FAILED
        /\ Len(state["error_log"]) = 1

\* The agent's previous kernel call completed.
CompletedBefore(name) ==
    \E i \in 1..(Len(history) - 1) :
        history[i] = [agent |-> name, kind |-> "return"]

\* C8: re-invoking an agent that completed before, with new domain output,
\* overwrites agent_status[name], execution_time[name] (the duration of the
\* most recent call) and last_modified_by; the status map and the elapsed-time
\* map keep exactly the entries they had and no other entry changes; the
\* error log is neither shortened nor rewritten.
C8_ReinvocationOverwritesMetadata ==
    [][ \A name \in Agents :
          /\ (KernelReturns(name) /\ last_exec'[name].kind = "return") =>
                result'[name]["execution_time"][name] = now - start_time[name]
          /\ ( /\ FoldsAfter(name, {"return"})
               /\ last_exec[name].update \in DomainOutputs
               /\ CompletedBefore(name) )
             => /\ DOMAIN state'["agent_status"] = DOMAIN state["agent_status"]
                /\ state'["agent_status"][name] = COMPLETED
                /\ \A other \in DOMAIN state["agent_status"] \ {name} :
                       state'["agent_status"][other] = state["agent_status"][other]
                /\ DOMAIN state'["execution_time"] = DOMAIN state["execution_time"]
                /\ state'["execution_time"][name] = result[name]["execution_time"][name]
                /\ \A other \in DOMAIN state["execution_time"] \ {name} :
                       state'["execution_time"][other] = state["execution_time"][other]
                /\ state'["last_modified_by"] = name
                /\ IsPrefix(state["error_log"], state'["error_log"])
                /\ state'["error_log"] = state["error_log"]
      ]_vars

\* A completed agent has run again, taking longer than the first time, and
\* returned new domain output.
C8_Witness ==
    \E name \in Agents :
        /\ ReturnedAfter(name, {"return"})
        /\ CompletedBefore(name)
        /\ last_exec[name].update \in DomainOutputs
        /\ "blog_post" \in DOMAIN last_exec[name].update
        /\ last_exec[name].update["blog_post"] # state["blog_post"]
        /\ result[name]["execution_time"][name] # state["execution_time"][name]

\* C9: the versioning group is updated by every kernel call, successful or
\* failed: the returned dict carries last_modified_by = name and
\* last_modified_at = the time of the call, and they are in the state once
\* it is folded; version starts at 1 and never decreases.
C9_VersioningUpdatedByEveryCall ==
    [][ /\ \A name \in Agents :
            /\ KernelReturns(name) =>
                  /\ {"last_modified_by", "last_modified_at"} \subseteq DOMAIN result'[name]
                  /\ result'[name]["last_modified_by"] = name
                  /\ result'[name]["last_modified_at"] = now
            /\ FoldsAfter(name, KernelKinds) =>
                  /\ state'["last_modified_by"] = name
                  /\ state'["last_modified_at"] = result[name]["last_modified_at"]
        /\ state["version"] >= 1
        /\ state'["version"] >= state["version"]
      ]_vars

\* No call is in progress and no returned dict waits to be folded.
AllFolded == \A name \in Agents : pc[name] = "idle"

\* Both agents have had a kernel call return.
BothAgentsCalled ==
    \A name \in Agents : \E i \in 1..Len(history) : history[i].agent = name

\* C10: in a sequential run no metadata written by a call is lost or stale:
\* once everything is folded no agent is shown as in-progress, and folding a
\* failure result extends the error_log of the state by exactly its one new
\* entry.  (With overlapping calls both fail: see the witness.)
C10_SequentialCallsLoseNoMetadata ==
    [][ ~parallel_execution =>
          /\ AllFolded' => \A name \in Agents : StatusOf(state', name) # IN_PROGRESS
          /\ \A name \in Agents :
                FoldsAfter(name, FailureKinds) =>
                    /\ IsPrefix(state["error_log"], state'["error_log"])
                    /\ Len(state'["error_log"]) = Len(state["error_log"]) + 1
      ]_vars

\* Two overlapping calls of different agents are both folded, and an agent
\* whose call has finished is still shown as in-progress.
C10_Witness ==
    /\ parallel_execution
    /\ AllFolded
    /\ BothAgentsCalled
    /\ \E name \in Agents : StatusOf(state, name) = IN_PROGRESS

\* Two overlapping calls of different agents both failed and both are folded,
\* and the error_log holds one entry only.
C10_LostErrorEntry ==
    /\ parallel_execution
    /\ AllFolded
    /\ Len(history) = 2
    /\ history[1].agent # history[2].agent
    /\ \A i \in {1, 2} : history[i].kind \in FailureKinds
    /\ Len(state["error_log"]) = 1

----------------------------------------------------------------------------
\* C11: the in-progress status of the called agent is in the state before
\* domain logic starts: while execute runs, however long, and after it has
\* returned or raised until the result is folded, the state shows
\* agent_status[name] = in_progress.
C11_InProgressVisibleToDomainLogic ==
    \A name \in Agents :
        (pc[name] = "executing" \/ ReturnedAfter(name, KernelKinds)) =>
            /\ "agent_status" \in DOMAIN state
            /\ name \in DOMAIN state["agent_status"]
            /\ state["agent_status"][name] = IN_PROGRESS

\* An agent that completed before is executing again.
C11_Witness ==
    \E name \in Agents :
        /\ pc[name] = "executing"
        /\ execution_count[name] = 2
        /\ history = <<[agent |-> name, kind |-> "return"]>>
        /\ state["agent_status"][name] = IN_PROGRESS

C16_MetadataWrittenByKernelOnly ==
    [][ \A name \in Agents :
          ( /\ FoldsAfter(name, {"return"})
            /\ MetadataKeys \cap DOMAIN last_exec[name].update # {} )
          => /\ state'["agent_status"] =
                    [state["agent_status"] EXCEPT ![name] = COMPLETED]
             /\ DOMAIN state'["execution_time"] =
                    DOMAIN state["execution_time"] \cup {name}
             /\ \A other \in DOMAIN state["execution_time"] \ {name} :
                    state'["execution_time"][other] = state["execution_time"][other]
             /\ state'["execution_time"][name] = result[name]["execution_time"][name]
             /\ state'["error_log"] = state["error_log"]
      ]_vars

\* C17: on success the kernel's metadata is in the result whatever the agent
\* returned: also when the agent's dict has its own last_modified_by,
\* last_modified_at, execution_time or agent_status, the returned dict has
\* last_modified_by = name, last_modified_at = the time of the return,
\* execution_time[name] = the measured duration and
\* agent_status[name] = completed.
C17_KernelMetadataWinsOnSuccess ==
    [][ \A name \in Agents :
          (KernelReturns(name) /\ last_exec'[name].kind = "return") =>
            LET r == result'[name]
            IN  /\ {"last_modified_by", "last_modified_at", "execution_time",
                    "agent_status"} \subseteq DOMAIN r
                /\ r["last_modified_by"] = name
                /\ r["last_modified_at"] = now
                /\ name \in DOMAIN r["execution_time"]
                /\ r["execution_time"][name] = now - start_time[name]
                /\ name \in DOMAIN r["agent_status"]
                /\ r["agent_status"][name] = COMPLETED
      ]_vars

\* The agent returned a dict with its own metadata keys, after time passed.
C17_Witness ==
    \E name \in Agents :
        /\ ReturnedAfter(name, {"return"})
        /\ last_exec[name].update \in MetadataOutputs(name)
        /\ result[name]["execution_time"][name] > 0

\* C18 (as stated): whenever domain logic returns normally, whatever value it
\* returns, the returned status is completed and no error_log entry is added.
C18_NormalReturnAlwaysCompletes ==
    [][ \A name \in Agents :
          (KernelReturns(name) /\ last_exec'[name].kind \in {"return", "return_none"}) =>
            /\ result'[name]["agent_status"][name] = COMPLETED
            /\ "error_log" \in DOMAIN result'[name] =>
                  Len(result'[name]["error_log"]) <= Len(state["error_log"])
      ]_vars

\* C18 (amended): whenever domain logic returns a dict, the returned status
\* is completed and the kernel adds no error_log entry (the result has an
\* error_log key only if the agent's dict had it, with the agent's value);
\* when it returns None, which is no dict, the call takes the failed
\* transition and one entry with the AttributeError is appended.
C18_DictReturnCompletes ==
    [][ \A name \in Agents :
          /\ (KernelReturns(name) /\ last_exec'[name].kind = "return") =>
                LET r == result'[name]
                    u == last_exec'[name].update
                IN  /\ r["agent_status"][name] = COMPLETED
                    /\ "error_log" \in DOMAIN r <=> "error_log" \in DOMAIN u
                    /\ "error_log" \in DOMAIN r => r["error_log"] = u["error_log"]
          /\ (KernelReturns(name) /\ last_exec'[name].kind = "return_none") =>
                LET r == result'[name]
                IN  /\ r["agent_status"][name] = FAILED
                    /\ Len(r["error_log"]) = Len(state["error_log"]) + 1
                    /\ r["error_log"][Len(r["error_log"])].error = NoneTypeError
      ]_vars

\* Domain logic returned the empty dict in one call and None in another.
C18_Witness ==
    /\ Len(history) = 2
    /\ history[1].kind = "return_none"
    /\ \E name \in Agents :
          /\ ReturnedAfter(name, {"return"})
          /\ last_exec[name].update = EmptyDict
          /\ result[name]["agent_status"][name] = COMPLETED

\* C19: a kernel call of an agent changes no other agent's metadata: the
\* only change it makes to the state object itself is agent_status[name]
\* (the in-progress write), and the agent_status and execution_time maps of
\* the returned dict hold every other agent's entry of the state, unchanged.
C19_OtherAgentsMetadataUntouched ==
    [][ \A name \in Agents :
          /\ WritesInProgress(name) =>
                /\ DOMAIN state' = DOMAIN state
                /\ \A k \in DOMAIN state \ {"agent_status"} : state'[k] = state[k]
                /\ DOMAIN state'["agent_status"] =
                       DOMAIN state["agent_status"] \cup {name}
                /\ \A other \in DOMAIN state["agent_status"] \ {name} :
                       state'["agent_status"][other] = state["agent_status"][other]
          /\ (KernelReturns(name) \/ (pc[name] = "idle" /\ pc'[name] = "started")) =>
                state' = state
          /\ KernelReturns(name) =>
                \A k \in {"agent_status", "execution_time"} :
                    /\ DOMAIN result'[name][k] = DOMAIN state[k] \cup {name}
                    /\ \A other \in DOMAIN state[k] \ {name} :
                           result'[name][k][other] = state[k][other]
      ]_vars

\* A call returns while the state holds the status and timing of the other
\* agent.
C19_Witness ==
    \E name \in Agents : \E other \in Agents \ {name} :
        /\ ReturnedAfter(name, KernelKinds)
        /\ other \in DOMAIN state["agent_status"]
        /\ other \in DOMAIN state["execution_time"]
        /\ result[name]["agent_status"][other] = state["agent_status"][other]


\* C20: the measured duration covers the domain-logic call only: the timer is
\* started after the in-progress status write, so at that write the timer of
\* the call holds no reading earlier than the clock's, and no kernel step
\* falls inside the measured interval.  The timer is started at line 61,
\* before the logging of line 64 and the in-progress write of line 67: time
\* that passes in those steps is measured as well.
C20_DurationCoversDomainLogicOnly ==
    [][ \A name \in Agents :
          /\ WritesInProgress(name) => start_time'[name] >= now
          /\ KernelReturns(name) =>
                result'[name]["execution_time"][name] = now - start_time[name]
      ]_vars

\* C12: validate_state passes if and only if the topic is present, non-empty
\* and of a length between 3 and 200 inclusive: a missing, None or empty
\* topic and the lengths 2 and 201 are rejected, the lengths 3 and 200 are
\* accepted.
C12_ValidateStateTopicLength ==
    validation # NotValidated =>
        LET accepted ==
                /\ "topic" \in DOMAIN candidate
                /\ candidate["topic"].type = "str"
                /\ PyLen(candidate["topic"]) # 0
                /\ PyLen(candidate["topic"]) >= 3
                /\ PyLen(candidate["topic"]) <= 200
        IN  /\ validation.is_valid <=> accepted
            /\ validation.is_valid <=> validation.error_message = None

\* A topic of exactly 200 characters has been validated and accepted.
C12_Witness ==
    /\ validation # NotValidated
    /\ "topic" \in DOMAIN candidate
    /\ candidate["topic"] = PyStr(200)
    /\ validation.is_valid


\* C13: a provider's search never raises past its own boundary: whichever
\* provider the tool holds (DuckDuckGo, Serper, Tavily) and whatever the
\* backend did, the search returns; after a connection failure, a timeout, an
\* error status or an answer that does not parse it returns the empty list.
C13_ProviderSearchNeverRaises ==
    search_outcome.status = "done" =>
        /\ tool.provider.kind \in {"duckduckgo", "serper", "tavily"}
        /\ ~search_outcome.raises
        /\ search_outcome.backend \in Failures => search_outcome.value = <<>>

\* A search through the Tavily provider has timed out.
C13_Witness ==
    /\ search_outcome.status = "done"
    /\ tool.provider.kind = "tavily"
    /\ search_outcome.backend = "timeout"
    /\ search_outcome.value = <<>>

\* C14: constructing a SearchTool fails fast: with serper or tavily and no key
\* or an empty one, and with a provider identifier that is none of duckduckgo,
\* serper and tavily, the constructor raises, no provider instance exists, and
\* no search has run or can run.
C14_ConstructionFailsFast ==
    /\ tool.status # "constructed" => search_outcome = NoSearch /\ ~ENABLED Search
    /\ tool.status # "none" =>
          LET keyless == /\ tool.provider_id \in {"serper", "tavily"}
                         /\ tool.key_arg \in {None, ""}
              unknown == tool.provider_id \notin {"duckduckgo", "serper", "tavily"}
          IN  keyless \/ unknown =>
                  /\ tool.status = "raised"
                  /\ tool.error = "ValueError"
                  /\ tool.provider = NoProvider

\* The constructor was given serper and an empty key, and raised.
C14_Witness ==
    /\ tool.status = "raised"
    /\ tool.provider_id = "serper"
    /\ tool.key_arg = ""


\* The gate of the agent ends this step by raising to its caller.
GateRaises(name) == pc[name] = "idle" /\ pc'[name] = "raised"

\* The caller receives the error the predicate of the agent raised.
ReceivesPredicateError(name) ==
    /\ pc[name] = "raised"
    /\ last_exec[name].kind = "predicate_raise"
    /\ pc'[name] = "idle"

\* C22: an error raised by should_execute is not captured by the kernel: it
\* propagates to the caller of ConditionalAgent.__call__, no dict is
\* returned, and the state (its status map and error log with it) and the
\* invocation counter are left as they were: no failed status and no error
\* entry are recorded.
C22_PredicateErrorPropagates ==
    [][ \A name \in ConditionalAgents :
          /\ last_exec'[name].kind = "predicate_raise" =>
                /\ pc'[name] = "raised"
                /\ result'[name] = EmptyDict
          /\ GateRaises(name) \/ ReceivesPredicateError(name) =>
                /\ state' = state
                /\ execution_count' = execution_count
                /\ StatusOf(state', name) # FAILED \/ StatusOf(state, name) = FAILED
      ]_vars

\* The predicate of the Editor raised in a run whose state already shows a
\* status entry and an error entry of an earlier call.
C22_Witness ==
    /\ pc["Editor"] = "raised"
    /\ last_exec["Editor"].kind = "predicate_raise"
    /\ state["agent_status"] # EmptyDict
    /\ Len(state["error_log"]) > 0


\* The gate of the agent decides in this step: it passes the call on to the
\* kernel, skips, or raises.
GateDecides(name) == pc[name] = "idle" /\ pc'[name] # "idle"

\* The call of the agent enters the kernel in this step.
EntersKernel(name) == pc[name] = "idle" /\ pc'[name] = "started"

\* C21: the gate evaluates its predicate before the in-progress write, and
\* with a true predicate it is the plain kernel: the call of a conditional
\* agent that passed the gate makes the counter increment, the in-place
\* status write and the returned update that BaseAgent.__call__ makes for a
\* plain agent on the same state with the same domain logic.
C21_GateWithTruePredicateIsKernel ==
    [][ /\ \A name \in ConditionalAgents :
              GateDecides(name) => state' = state
        /\ \A name \in Agents :
              /\ EntersKernel(name) =>
                    /\ execution_count'[name] = execution_count[name] + 1
                    /\ start_time'[name] = now
              /\ WritesInProgress(name) =>
                    state' = UpdateStatusInPlace(state, name, IN_PROGRESS)
              /\ KernelReturns(name) =>
                    result'[name] =
                        TryExcept(name, state, last_exec'[name],
                                  now - start_time[name], now,
                                  execution_count[name]).value
      ]_vars

\* The Editor's predicate was true and its second call has returned through
\* the kernel.
C21_Witness ==
    /\ ReturnedAfter("Editor", KernelKinds)
    /\ execution_count["Editor"] = 2
    /\ StatusOf(state, "Editor") = IN_PROGRESS


\* C23: SearchTool.search(query, max_results=n) returns an ordered sequence
\* of at most n records, each with exactly the keys title, link and snippet,
\* for every n the caller passes; when n is omitted the bound is the tool's
\* configured max_results.
C23_SearchReturnsAtMostN ==
    search_outcome.status = "done" =>
        LET n == IF search_outcome.arg.given
                 THEN search_outcome.arg.n
                 ELSE tool.max_results
            records == search_outcome.value
        IN  /\ Len(records) <= n
            /\ \A i \in 1..Len(records) :
                  DOMAIN records[i] = {"title", "link", "snippet"}

====
